---- MODULE Spec2Model ----
(***************************************************************************)
(* Model of t1.js: the Sepolia <-> T1 bridge bot.                          *)
(*                                                                         *)
(* Units.  JavaScript numbers holding ETH amounts (amountETH, balances     *)
(* after parseFloat, stats.*.totalBridged) are counted in nano-ETH         *)
(* (10^-9 ETH).  ethers BigNumbers holding wei are counted in WeiUnit =    *)
(* 10^8 wei, so that every quantity of the program fits TLC's integers.    *)
(* Durations are in milliseconds, as the arguments of setTimeout are.      *)
(***************************************************************************)
EXTENDS Integers, Sequences, FiniteSets, TLC

VARIABLES
    privateKey,      \* argument of infiniteBridge
    pc,              \* position of infiniteBridge
    bpc,             \* position of the bridge call in progress ("idle": none)
    stats,           \* the module-level stats object
    sepoliaAmount,   \* const sepoliaAmount of the current cycle
    t1Amount,        \* const t1Amount of the current cycle
    sepoliaBalance,  \* const sepoliaBalance of the current cycle
    t1Balance,       \* const t1Balance of the current cycle
    txs,             \* transactions submitted and not mined yet, in order
    chain,           \* what the two chains have mined with status 1, per direction;
                     \* late: the part mined after the bot stopped waiting for it
    clock,           \* milliseconds spent in timers since the process started,
                     \* followed up to MaxClock ("MaxClock or more")
    call,            \* record of the latest bridge call (history)
    hist             \* record of what happened since the latest attempt (history)

vars == <<privateKey, pc, bpc, stats, sepoliaAmount, t1Amount, sepoliaBalance,
          t1Balance, txs, chain, clock, call, hist>>

----------------------------------------------------------------------------
(* Bounds of the model *)

\* bridge calls made, both directions together
MaxAttempts == 3
\* milliseconds of timers the model follows
MaxClock == 20000
\* transactions left pending at once (submitted, never seen mined by the bot)
MaxPending == 1
\* bridge calls made in the behaviours checked for liveness
LiveMaxAttempts == 2
\* Math.random() returns r / RandDen, r in 0 .. RandDen - 1
RandDen == 20000

----------------------------------------------------------------------------
(* Constants of the program *)

NanoPerMicro == 1000
\* const minAmount = 0.0002, in nano-ETH
minAmount == 200000
\* const maxAmount = 0.01, in nano-ETH
maxAmount == 10000000
\* CONFIG.DELAY_SECONDS
DELAY_SECONDS == 5
\* the setTimeout of the confirmation race, in ms
CONFIRM_TIMEOUT_MS == 120000
\* parseEther("0.0001"), in nano-ETH
BUFFER_ETH == 100000
\* 1 nano-ETH = 10^9 wei = 10 WeiUnit
WeiUnitsPerNano == 10

SEPOLIA_TO_T1_BRIDGE == "0xAFdF"
T1_TO_SEPOLIA_BRIDGE == "0x627B"
T1_CHAIN_ID == "299792"
SEPOLIA_CHAIN_ID == "11155111"

Directions == {"sepoliaToT1", "t1ToSepolia"}

PrivateKeys == {"", "invalid", "valid"}

\* what provider.getBalance can return, in WeiUnit: 0.00025 and 0.02 ETH
Balances == {2500000, 200000000}

\* the values of Math.random() the scheduler's cycles draw, as r / RandDen
CycleDraws == {0, RandDen - 1}

----------------------------------------------------------------------------
(* Pure functions *)

\* floor(a * b / d) for 0 <= a < d, without an intermediate beyond 2^31
MulDiv(a, b, d) == a * (b \div d) + (a * (b % d)) \div d

\* Number.prototype.toFixed(6): the decimal string with 6 places nearest to x
\* (ties upward), given as its count of 10^-6
toFixed6(x) == (x + NanoPerMicro \div 2) \div NanoPerMicro

\* parseFloat of a decimal string with 6 places
parseFloat6(m) == m * NanoPerMicro

\* getRandomAmount with  Math.random() * max + min
getRandomAmount_NoSpan(r) ==
    parseFloat6(toFixed6(MulDiv(r, maxAmount, RandDen) + minAmount))

\* getRandomAmount(min = minAmount, max = maxAmount), Math.random() = r / RandDen
getRandomAmount(r) ==
    parseFloat6(toFixed6(MulDiv(r, maxAmount - minAmount, RandDen) + minAmount))

\* ethers.utils.parseEther(x.toString()): ETH to wei
parseEther(x) == x * WeiUnitsPerNano

\* parseFloat(ethers.utils.formatEther(w)): wei to ETH
formatEther(w) == w \div WeiUnitsPerNano

\* const txValueWei = amountWei.add(ethers.utils.parseEther("0.0001"))
txValueWei(amountWei) == amountWei + parseEther(BUFFER_ETH)

\* bridgeSepoliaToT1 sending  value: amountWei
SepoliaTx_NoBuffer(amountETH) ==
    LET amountWei == parseEther(amountETH) IN
    [dir |-> "sepoliaToT1", to |-> SEPOLIA_TO_T1_BRIDGE,
     value |-> amountWei, _value |-> amountWei, _gasLimit |-> 168000,
     _destChainId |-> T1_CHAIN_ID]

\* bridgeSepoliaToT1: the request of wallet.sendTransaction and the arguments
\* of sendMessage encoded in its data
SepoliaTx(amountETH) ==
    LET amountWei == parseEther(amountETH) IN
    [dir |-> "sepoliaToT1", to |-> SEPOLIA_TO_T1_BRIDGE,
     value |-> txValueWei(amountWei), _value |-> amountWei, _gasLimit |-> 168000,
     _destChainId |-> T1_CHAIN_ID]

\* bridgeT1ToSepolia: the request of wallet.sendTransaction and the arguments
\* of sendMessage encoded in its data
T1Tx(amountETH) ==
    LET amountWei == parseEther(amountETH) IN
    [dir |-> "t1ToSepolia", to |-> T1_TO_SEPOLIA_BRIDGE,
     value |-> amountWei, _value |-> amountWei, _gasLimit |-> 0,
     _destChainId |-> SEPOLIA_CHAIN_ID]

BuildTx(dir, amountETH) ==
    IF dir = "sepoliaToT1" THEN SepoliaTx(amountETH) ELSE T1Tx(amountETH)

\* the steps taken without the pre-flight test
Sufficient_Always(balance, amount) == TRUE

\* the pre-flight test  parseFloat(balance) >= amount * 1.1
Sufficient(balance, amount) == balance * 10 >= amount * 11

Max(a, b) == IF a >= b THEN a ELSE b

Min(a, b) == IF a <= b THEN a ELSE b

\* setTimeout(..., ms) has fired: the clock after a timer of ms milliseconds
AfterTimer(ms) == Min(clock + ms, MaxClock)

----------------------------------------------------------------------------
(* State *)

ZeroStats == [attempts |-> 0, successes |-> 0, failures |-> 0, totalBridged |-> 0]

NoCall == [dir |-> "none", amount |-> 0, before |-> ZeroStats, sent |-> 0,
           receipt |-> -1, outcome |-> "none",
           prevDir |-> "none", slept |-> 0, fresh |-> FALSE]

Init ==
    /\ privateKey \in PrivateKeys
    /\ pc = "start"
    /\ bpc = "idle"
    /\ stats = [sepoliaToT1 |-> ZeroStats, t1ToSepolia |-> ZeroStats]
    /\ sepoliaAmount = 0
    /\ t1Amount = 0
    /\ sepoliaBalance = 0
    /\ t1Balance = 0
    /\ txs = <<>>
    /\ chain = [d \in Directions |-> [ok |-> 0, okValue |-> 0, late |-> 0, lateValue |-> 0]]
    /\ clock = 0
    /\ call = NoCall
    /\ hist = [lastDir |-> "none", slept |-> 0, fresh |-> FALSE]

\* sleep(ms) (lines 285-287): the timer runs ms milliseconds
sleep(ms) ==
    /\ clock' = AfterTimer(ms)
    /\ hist' = [hist EXCEPT !.slept = Max(@, ms)]

\* the block of the try statement is left: its constants are out of scope, and
\* the record of the cycle's latest call is dropped
LeaveCycle ==
    /\ sepoliaAmount' = 0
    /\ t1Amount' = 0
    /\ sepoliaBalance' = 0
    /\ t1Balance' = 0
    /\ call' = NoCall

----------------------------------------------------------------------------
(* infiniteBridge *)

\* infiniteBridge without the check of its argument
Start_NoCheck ==
    /\ pc = "start"
    /\ pc' = IF privateKey = "invalid" THEN "rejected" ELSE "cycle"
    /\ UNCHANGED <<privateKey, bpc, stats, sepoliaAmount, t1Amount, sepoliaBalance,
                   t1Balance, txs, chain, clock, call, hist>>

\* lines 296-309: the argument check and the wallets
Start ==
    /\ pc = "start"
    /\ pc' = CASE privateKey = "" -> "returned"
               [] privateKey = "invalid" -> "rejected"
               [] OTHER -> "cycle"
    /\ UNCHANGED <<privateKey, bpc, stats, sepoliaAmount, t1Amount, sepoliaBalance,
                   t1Balance, txs, chain, clock, call, hist>>

\* lines 315-316: the amounts of the cycle
PickAmounts ==
    /\ pc = "cycle"
    /\ \E r1 \in CycleDraws, r2 \in CycleDraws :
          /\ sepoliaAmount' = getRandomAmount(r1)
          /\ t1Amount' = getRandomAmount(r2)
    /\ pc' = "sepoliaBalance"
    /\ hist' = [hist EXCEPT !.fresh = TRUE]
    /\ UNCHANGED <<privateKey, bpc, stats, sepoliaBalance, t1Balance, txs, chain, clock, call>>

\* line 324: await getBalance(sepoliaProvider, ...), which may reject
ReadSepoliaBalance ==
    /\ pc = "sepoliaBalance"
    /\ \/ \E b \in Balances :
             /\ sepoliaBalance' = formatEther(b)
             /\ pc' = "t1Balance"
       \/ /\ pc' = "catch"
          /\ UNCHANGED sepoliaBalance
    /\ UNCHANGED <<privateKey, bpc, stats, sepoliaAmount, t1Amount, t1Balance, txs, chain,
                   clock, call, hist>>

\* line 325: await getBalance(t1Provider, ...), which may reject
ReadT1Balance ==
    /\ pc = "t1Balance"
    /\ \/ \E b \in Balances :
             /\ t1Balance' = formatEther(b)
             /\ pc' = "forward"
       \/ /\ pc' = "catch"
          /\ UNCHANGED t1Balance
    /\ UNCHANGED <<privateKey, bpc, stats, sepoliaAmount, t1Amount, sepoliaBalance, txs, chain,
                   clock, call, hist>>

\* lines 75-76 and 186-187: the synchronous head of a bridge call
EnterBridge(dir, amountETH) ==
    /\ stats.sepoliaToT1.attempts + stats.t1ToSepolia.attempts < MaxAttempts
    /\ stats' = [stats EXCEPT ![dir].attempts = @ + 1]
    /\ bpc' = "prepare"
    /\ call' = [dir |-> dir, amount |-> amountETH, before |-> stats[dir], sent |-> 0,
                receipt |-> -1, outcome |-> "running",
                prevDir |-> hist.lastDir, slept |-> hist.slept, fresh |-> hist.fresh]
    /\ hist' = [hist EXCEPT !.lastDir = dir, !.slept = 0, !.fresh = FALSE]

\* the forward step bridging the amount drawn for the other direction
ForwardStep_OtherAmount ==
    /\ pc = "forward"
    /\ IF Sufficient(sepoliaBalance, sepoliaAmount)
       THEN /\ EnterBridge("sepoliaToT1", t1Amount)
            /\ pc' = "inForward"
       ELSE /\ pc' = "sleep1"
            /\ UNCHANGED <<bpc, stats, call, hist>>
    /\ UNCHANGED <<privateKey, sepoliaAmount, t1Amount, sepoliaBalance, t1Balance, txs, chain,
                   clock>>

\* lines 330-334: the Sepolia -> T1 step
ForwardStep ==
    /\ pc = "forward"
    /\ IF Sufficient(sepoliaBalance, sepoliaAmount)
       THEN /\ EnterBridge("sepoliaToT1", sepoliaAmount)
            /\ pc' = "inForward"
       ELSE /\ pc' = "sleep1"
            /\ UNCHANGED <<bpc, stats, call, hist>>
    /\ UNCHANGED <<privateKey, sepoliaAmount, t1Amount, sepoliaBalance, t1Balance, txs, chain,
                   clock>>

\* the forward step followed at once by the reverse step
Sleep1_NoDelay ==
    /\ pc = "sleep1"
    /\ pc' = "reverse"
    /\ UNCHANGED <<privateKey, bpc, stats, sepoliaAmount, t1Amount, sepoliaBalance,
                   t1Balance, txs, chain, clock, call, hist>>

\* lines 337-338: await sleep(delaySeconds * 1000)
Sleep1 ==
    /\ pc = "sleep1"
    /\ sleep(DELAY_SECONDS * 1000)
    /\ pc' = "reverse"
    /\ UNCHANGED <<privateKey, bpc, stats, sepoliaAmount, t1Amount, sepoliaBalance,
                   t1Balance, txs, chain, call>>

\* the reverse step calling bridgeSepoliaToT1 again
ReverseStep_SameDirection ==
    /\ pc = "reverse"
    /\ IF Sufficient(t1Balance, t1Amount)
       THEN /\ EnterBridge("sepoliaToT1", t1Amount)
            /\ pc' = "inForward"
       ELSE /\ pc' = "sleep2"
            /\ UNCHANGED <<bpc, stats, call, hist>>
    /\ UNCHANGED <<privateKey, sepoliaAmount, t1Amount, sepoliaBalance, t1Balance, txs, chain,
                   clock>>

\* lines 341-345: the T1 -> Sepolia step
ReverseStep ==
    /\ pc = "reverse"
    /\ IF Sufficient(t1Balance, t1Amount)
       THEN /\ EnterBridge("t1ToSepolia", t1Amount)
            /\ pc' = "inReverse"
       ELSE /\ pc' = "sleep2"
            /\ UNCHANGED <<bpc, stats, call, hist>>
    /\ UNCHANGED <<privateKey, sepoliaAmount, t1Amount, sepoliaBalance, t1Balance, txs, chain,
                   clock>>

\* lines 348-349: await sleep(delaySeconds * 1000), then the next iteration
Sleep2 ==
    /\ pc = "sleep2"
    /\ sleep(DELAY_SECONDS * 1000)
    /\ pc' = "cycle"
    /\ LeaveCycle
    /\ UNCHANGED <<privateKey, bpc, stats, txs, chain>>

\* catch (error) that ends the function
Catch_Return ==
    /\ pc = "catch"
    /\ pc' = "returned"
    /\ LeaveCycle
    /\ UNCHANGED <<privateKey, bpc, stats, txs, chain, clock, hist>>

\* catch (error) sleeping the normal delay
Catch_NormalDelay ==
    /\ pc = "catch"
    /\ sleep(DELAY_SECONDS * 1000)
    /\ pc' = "cycle"
    /\ LeaveCycle
    /\ UNCHANGED <<privateKey, bpc, stats, txs, chain>>

\* lines 351-355: catch (error): await sleep(delaySeconds * 2000), then the next
\* iteration
Catch ==
    /\ pc = "catch"
    /\ sleep(DELAY_SECONDS * 2000)
    /\ pc' = "cycle"
    /\ LeaveCycle
    /\ UNCHANGED <<privateKey, bpc, stats, txs, chain>>

----------------------------------------------------------------------------
(* bridgeSepoliaToT1 and bridgeT1ToSepolia: the two functions have the same *)
(* control flow; call.dir says which one is running.                       *)

\* successes++; totalBridged += the native value sent, buffer included
Confirmed_WithBuffer(s, dir, amountETH) ==
    [s EXCEPT ![dir].successes = @ + 1,
              ![dir].totalBridged = @ + amountETH + BUFFER_ETH]

\* successes++; totalBridged = parseFloat(amountETH)
Confirmed_Assign(s, dir, amountETH) ==
    [s EXCEPT ![dir].successes = @ + 1, ![dir].totalBridged = amountETH]

\* lines 144-145, 244-245: stats.<dir>.successes++; totalBridged += parseFloat(amountETH)
Confirmed(s, dir, amountETH) ==
    [s EXCEPT ![dir].successes = @ + 1, ![dir].totalBridged = @ + amountETH]

\* lines 155, 160, 168 (255, 260, 268): stats.<dir>.failures++
Failed(s, dir) == [s EXCEPT ![dir].failures = @ + 1]

\* if (receipt.status) ... else ... : any receipt counts as a success
OnReceipt_AnyStatus(s, dir, amountETH, status) ==
    IF status >= 0 THEN Confirmed(s, dir, amountETH) ELSE Failed(s, dir)

\* lines 143-158: if (receipt.status === 1) ... else ...
OnReceipt(s, dir, amountETH, status) ==
    IF status = 1 THEN Confirmed(s, dir, amountETH) ELSE Failed(s, dir)

\* catch (waitError) that only logs
OnWaitError_Uncounted(s, dir) == s

\* lines 159-164: catch (waitError)
OnWaitError(s, dir) == Failed(s, dir)

\* lines 167-181: catch (error) { failures++ ...; throw error }
OnError(s, dir) == Failed(s, dir)

\* where infiniteBridge continues when the awaited bridge call returns
AfterCall(dir) == IF dir = "sepoliaToT1" THEN "sleep1" ELSE "sleep2"

\* return amountETH (lines 166, 266)
Return(outcome) ==
    /\ bpc' = "idle"
    /\ pc' = AfterCall(call.dir)
    /\ call' = [call EXCEPT !.outcome = outcome]

\* the outer catch rethrows: the await of infiniteBridge (lines 331, 342) throws
\* into its catch (line 351)
Throw ==
    /\ stats' = OnError(stats, call.dir)
    /\ bpc' = "idle"
    /\ pc' = "catch"
    /\ call' = [call EXCEPT !.outcome = "threw"]

\* lines 79-119, 190-222: everything before the submission; the two awaits,
\* getBalance (86, 197) and getFeeData / getGasPrice (114, 221), may reject
Prepare ==
    /\ bpc = "prepare"
    /\ \/ /\ bpc' = "send"
          /\ UNCHANGED <<pc, stats, call>>
       \/ Throw
    /\ UNCHANGED <<privateKey, sepoliaAmount, t1Amount, sepoliaBalance, t1Balance, txs, chain,
                   clock, hist>>

\* lines 122-130, 225-231: const tx = await wallet.sendTransaction({...})
SendTransaction ==
    /\ bpc = "send"
    /\ \/ /\ txs' = Append(txs, BuildTx(call.dir, call.amount))
          /\ call' = [call EXCEPT !.sent = @ + 1]
          /\ bpc' = "wait"
          /\ UNCHANGED <<pc, stats>>
       \/ /\ Throw
          /\ UNCHANGED txs
    /\ UNCHANGED <<privateKey, sepoliaAmount, t1Amount, sepoliaBalance, t1Balance,
                   chain, clock, hist>>

\* the sequence q without its i-th element
Remove(q, i) == [j \in 1 .. Len(q) - 1 |-> IF j < i THEN q[j] ELSE q[j + 1]]

\* the chain mines the i-th pending transaction, with receipt status 1 (st = "ok")
\* or 0 (st = "reverted")
Mine(i, st) ==
    /\ txs' = Remove(txs, i)
    /\ chain' = IF st = "ok"
                THEN [chain EXCEPT ![txs[i].dir].ok = @ + 1,
                                   ![txs[i].dir].okValue = @ + txs[i]._value]
                ELSE chain

\* the transaction tx.wait(1) waits for is the one submitted last
Awaited == Len(txs)

\* lines 138-145: tx.wait(1) wins the race with a receipt of status 1
WaitConfirmed ==
    /\ bpc = "wait"
    /\ stats' = OnReceipt(stats, call.dir, call.amount, 1)
    /\ Mine(Awaited, "ok")
    /\ call' = [call EXCEPT !.receipt = 1]
    /\ bpc' = "endBalance"
    /\ UNCHANGED <<privateKey, pc, sepoliaAmount, t1Amount, sepoliaBalance, t1Balance,
                   clock, hist>>

\* lines 154-158: tx.wait(1) wins the race with a receipt of another status
WaitReverted ==
    /\ bpc = "wait"
    /\ stats' = OnReceipt(stats, call.dir, call.amount, 0)
    /\ Mine(Awaited, "reverted")
    /\ bpc' = "idle"
    /\ pc' = AfterCall(call.dir)
    /\ call' = [call EXCEPT !.receipt = 0, !.outcome = "status0"]
    /\ UNCHANGED <<privateKey, sepoliaAmount, t1Amount, sepoliaBalance, t1Balance,
                   clock, hist>>

\* lines 159-164: tx.wait(1) rejects (the RPC fails, or the transaction reverted)
WaitRejected ==
    /\ bpc = "wait"
    /\ stats' = OnWaitError(stats, call.dir)
    /\ \/ Mine(Awaited, "reverted")
       \/ /\ Len(txs) <= MaxPending
          /\ UNCHANGED <<txs, chain>>
    /\ Return("waitError")
    /\ UNCHANGED <<privateKey, sepoliaAmount, t1Amount, sepoliaBalance, t1Balance,
                   clock, hist>>

\* lines 140, 159-164: the 120000 ms timer wins the race
WaitTimeout ==
    /\ bpc = "wait"
    /\ Len(txs) <= MaxPending
    /\ clock' = AfterTimer(CONFIRM_TIMEOUT_MS)
    /\ stats' = OnWaitError(stats, call.dir)
    /\ Return("timeout")
    /\ UNCHANGED <<privateKey, sepoliaAmount, t1Amount, sepoliaBalance, t1Balance,
                   txs, chain, hist>>

\* lines 147-153: const endBalance = await getBalance(...), inside the inner try:
\* its rejection is caught by catch (waitError)
GetEndBalance ==
    /\ bpc = "endBalance"
    /\ \/ /\ Return("success")
          /\ UNCHANGED stats
       \/ /\ stats' = OnWaitError(stats, call.dir)
          /\ Return("endBalanceError")
    /\ UNCHANGED <<privateKey, sepoliaAmount, t1Amount, sepoliaBalance, t1Balance,
                   txs, chain, clock, hist>>

\* the chain mines the i-th pending transaction after its bridge call has ended
MineAbandoned(i, st) ==
    /\ txs' = Remove(txs, i)
    /\ chain' = IF st = "ok"
                THEN [chain EXCEPT ![txs[i].dir].ok = @ + 1,
                                   ![txs[i].dir].okValue = @ + txs[i]._value,
                                   ![txs[i].dir].late = @ + 1,
                                   ![txs[i].dir].lateValue = @ + txs[i]._value]
                ELSE chain

\* the chain: a transaction nobody waits for any more is mined
MineLate ==
    /\ \E i \in DOMAIN txs :
          /\ ~(bpc = "wait" /\ i = Awaited)
          /\ \E st \in {"ok", "reverted"} : MineAbandoned(i, st)
    /\ UNCHANGED <<privateKey, pc, bpc, stats, sepoliaAmount, t1Amount, sepoliaBalance,
                   t1Balance, clock, call, hist>>

----------------------------------------------------------------------------

Next ==
    \/ Start
    \/ PickAmounts
    \/ ReadSepoliaBalance
    \/ ReadT1Balance
    \/ ForwardStep
    \/ Sleep1
    \/ ReverseStep
    \/ Sleep2
    \/ Catch
    \/ Prepare
    \/ SendTransaction
    \/ WaitConfirmed
    \/ WaitReverted
    \/ WaitRejected
    \/ WaitTimeout
    \/ GetEndBalance
    \/ MineLate

Spec == Init /\ [][Next]_vars

----------------------------------------------------------------------------
(* getRandomAmount on its own: every value of Math.random() the model has *)

AmountInit ==
    /\ Init
    /\ privateKey = "valid"

\* lines 315-316 for every pair (r, RandDen - 1 - r) of draws
DrawAmounts ==
    /\ pc = "start"
    /\ \E r \in 0 .. RandDen - 1 :
          /\ sepoliaAmount' = getRandomAmount(r)
          /\ t1Amount' = getRandomAmount(RandDen - 1 - r)
    /\ pc' = "sepoliaBalance"
    /\ UNCHANGED <<privateKey, bpc, stats, sepoliaBalance, t1Balance, txs, chain, clock,
                   call, hist>>

AmountSpec == AmountInit /\ [][DrawAmounts]_vars

----------------------------------------------------------------------------
(* The claims *)

\* the daily maximum N of the specification; the program configures none
DailyMax == 2
\* the 24-hour window of the specification, in ms
DAY_MS == 86400000

\* the successful bridge operations counted since the process started: the
\* program never resets a count
bridgeCount == stats.sepoliaToT1.successes + stats.t1ToSepolia.successes

Ended == call.outcome \notin {"none", "running"}

FailureOutcomes == {"status0", "waitError", "timeout", "threw"}

\* C1: inside one 24-hour window the number of successful bridge operations
\* never exceeds the daily maximum N.
C1_DailyQuota ==
    (clock < MaxClock /\ clock < DAY_MS) => bridgeCount <= DailyMax

\* C2: whenever no bridge call is in progress, attempts = successes + failures
\* in each direction.
C2_StatsAccounting ==
    bpc = "idle" =>
        \A d \in Directions :
            stats[d].attempts = stats[d].successes + stats[d].failures

\* C3: successes and totalBridged of a direction change only in an attempt whose
\* confirmation returned a receipt with status 1; an attempt that ends with another
\* receipt status, a timeout or an exception during submission or waiting adds 1
\* to failures and leaves successes and totalBridged as they were; the successes
\* of a direction never exceed the transactions its chain confirmed with status 1.
C3_SuccessOnlyOnStatus1 ==
    /\ \A d \in Directions : stats[d].successes <= chain[d].ok
    /\ call.outcome # "none" =>
          LET now == stats[call.dir] IN
          /\ (now.successes # call.before.successes
                \/ now.totalBridged # call.before.totalBridged) => call.receipt = 1
          /\ call.outcome \in FailureOutcomes =>
                /\ now.failures = call.before.failures + 1
                /\ now.successes = call.before.successes
                /\ now.totalBridged = call.before.totalBridged

C3_Witness ==
    /\ call.outcome = "status0"
    /\ call.before.successes = 1
    /\ stats[call.dir].failures = 1

\* C4: a bridge call whose confirmation timed out has added exactly 1 to failures
\* and to attempts, has left successes and totalBridged unchanged, and has
\* submitted exactly one transaction; no bridge call submits a second one.
C4_TimeoutIsFailure ==
    /\ call.sent <= 1
    /\ call.outcome = "timeout" =>
          LET now == stats[call.dir] IN
          /\ now.failures = call.before.failures + 1
          /\ now.attempts = call.before.attempts + 1
          /\ now.successes = call.before.successes
          /\ now.totalBridged = call.before.totalBridged
          /\ call.sent = 1

C4_Witness ==
    /\ call.outcome = "timeout"
    /\ call.before.attempts = 1
    /\ pc \in {"sleep1", "sleep2"}

\* C5: a failed bridge attempt does not propagate to the scheduler: after a failed
\* forward attempt the cycle goes on with its delay and its reverse step, after a
\* failed reverse attempt with its closing delay.
C5_ErrorsContained ==
    (bpc = "idle" /\ call.outcome \in FailureOutcomes) =>
        IF call.dir = "sepoliaToT1"
        THEN pc \in {"sleep1", "reverse", "sleep2"}
        ELSE pc = "sleep2"

InLoop == pc \notin {"start", "returned", "rejected"}

\* C6: from its catch block the loop sleeps exactly 2 * delaySeconds and starts a
\* new cycle, and the loop, once entered, is never left.
C6_CatchBackoff ==
    [][/\ (pc = "catch" /\ pc' # pc) =>
             /\ pc' = "cycle"
             /\ clock + 2 * DELAY_SECONDS * 1000 <= MaxClock =>
                   clock' = clock + 2 * DELAY_SECONDS * 1000
             /\ hist'.slept >= 2 * DELAY_SECONDS * 1000
       /\ InLoop => InLoop']_vars

C6_Witness ==
    /\ pc = "cycle"
    /\ clock = 2 * DELAY_SECONDS * 1000
    /\ stats.sepoliaToT1.failures = 1

\* C7: the forward step of a cycle is over when its reverse step begins, and
\* between two consecutive bridge attempts there is a sleep of at least
\* delaySeconds.
C7_OrderedWithDelay ==
    /\ call.outcome # "none" /\ call.prevDir # "none" =>
          call.slept >= DELAY_SECONDS * 1000
    /\ pc \in {"sleep1", "reverse", "inReverse", "sleep2"} =>
          (bpc # "idle" => (pc = "inReverse" /\ call.dir = "t1ToSepolia"))
    /\ pc = "inForward" => (bpc # "idle" /\ call.dir = "sepoliaToT1")

C7_Witness ==
    /\ call.outcome = "running"
    /\ call.prevDir = "sepoliaToT1"
    /\ call.dir = "t1ToSepolia"
    /\ call.slept = DELAY_SECONDS * 1000

\* C8 as stated, for two consecutive bridge attempts with no error backoff between
\* them (every sleep between them is the normal delay, so the earlier attempt did
\* not throw): they never have the same direction, also when a step is skipped.
C8_Alternating ==
    (call.outcome # "none" /\ call.slept < 2 * DELAY_SECONDS * 1000) =>
        call.prevDir # call.dir

\* C8 as amended: two consecutive bridge attempts of one cycle are its forward
\* attempt followed by its reverse attempt; two consecutive attempts of the same
\* direction belong to different cycles.
C8_AlternatingInCycle ==
    (call.outcome # "none" /\ call.prevDir # "none" /\ ~call.fresh) =>
        (call.prevDir = "sepoliaToT1" /\ call.dir = "t1ToSepolia")

C8_Witness ==
    /\ call.outcome = "running"
    /\ call.prevDir = "sepoliaToT1"
    /\ call.dir = "sepoliaToT1"
    /\ call.fresh

\* C9: every amount getRandomAmount returns lies in [minAmount, maxAmount] and is
\* a multiple of 10^-6.
C9_AmountRange ==
    pc = "sepoliaBalance" =>
        \A a \in {sepoliaAmount, t1Amount} :
            /\ minAmount <= a
            /\ a <= maxAmount
            /\ a % NanoPerMicro = 0

C9_Witness ==
    /\ pc = "sepoliaBalance"
    /\ sepoliaAmount = maxAmount
    /\ t1Amount = minAmount

StatFields == {"attempts", "successes", "failures", "totalBridged"}

\* C11: invoked with no private key, infiniteBridge returns without entering the
\* loop: no balance is read, no bridge call is made, no transaction is submitted
\* and every counter of stats keeps its initial value.
C11_NoKeyAborts ==
    privateKey = "" =>
        /\ pc \in {"start", "returned"}
        /\ bpc = "idle"
        /\ call = NoCall
        /\ sepoliaBalance = 0 /\ t1Balance = 0
        /\ txs = <<>>
        /\ \A d \in Directions : \A f \in StatFields : stats[d][f] = 0

C11_Witness ==
    /\ privateKey = ""
    /\ pc = "returned"

\* C12: no step decreases or resets attempts, successes, failures or totalBridged
\* of either direction.
C12_StatsMonotonic ==
    [][\A d \in Directions : \A f \in StatFields : stats'[d][f] >= stats[d][f]]_vars

C12_Witness ==
    /\ stats.sepoliaToT1.successes = 2
    /\ stats.sepoliaToT1.totalBridged = maxAmount + minAmount
    /\ stats.sepoliaToT1.failures = 1


----------------------------------------------------------------------------
(* The loop under fair scheduling: every await of the program eventually    *)
(* resolves or rejects and every timer fires; the chain owes nothing.       *)

\* the steps of infiniteBridge and of the bridge call it awaits
Program ==
    \/ Start
    \/ PickAmounts
    \/ ReadSepoliaBalance
    \/ ReadT1Balance
    \/ ForwardStep
    \/ Sleep1
    \/ ReverseStep
    \/ Sleep2
    \/ Catch
    \/ Prepare
    \/ SendTransaction
    \/ WaitConfirmed
    \/ WaitReverted
    \/ WaitRejected
    \/ WaitTimeout
    \/ GetEndBalance

\* the fair behaviours are followed up to LiveMaxAttempts bridge calls
Followed == stats.sepoliaToT1.attempts + stats.t1ToSepolia.attempts <= LiveMaxAttempts

LiveNext == Next /\ Followed'

LiveProgram == Program /\ Followed'

LiveSpec == Init /\ [][LiveNext]_vars /\ WF_vars(LiveProgram)

\* the loop stands before a bridge call the model does not follow any more
AttemptsExhausted ==
    /\ stats.sepoliaToT1.attempts + stats.t1ToSepolia.attempts = LiveMaxAttempts
    /\ \/ pc = "forward" /\ Sufficient(sepoliaBalance, sepoliaAmount)
       \/ pc = "reverse" /\ Sufficient(t1Balance, t1Amount)

\* C13: once the loop is entered, a new cycle is always eventually started,
\* after a cycle that ended normally and after one that threw, for as long as
\* the model follows the program (up to LiveMaxAttempts bridge calls).
C13_RunsForever ==
    [](InLoop => <>(pc = "cycle" \/ AttemptsExhausted))

C13_Witness ==
    /\ pc = "cycle"
    /\ hist.slept = 2 * DELAY_SECONDS * 1000
    /\ stats.t1ToSepolia.failures = 1


\* C14 as stated: the reverse attempt of a cycle uses the amount its forward
\* attempt used (sepoliaAmount, still in scope).
C14_OneAmount ==
    (call.dir = "t1ToSepolia" /\ call.prevDir = "sepoliaToT1" /\ ~call.fresh) =>
        call.amount = sepoliaAmount

\* C14 as amended: a cycle picks two amounts, one per direction; its forward
\* attempt bridges sepoliaAmount and its reverse attempt bridges t1Amount.
C14_AmountPerDirection ==
    call.outcome # "none" =>
        call.amount = IF call.dir = "sepoliaToT1" THEN sepoliaAmount ELSE t1Amount

C14_Witness ==
    /\ call.dir = "t1ToSepolia"
    /\ call.prevDir = "sepoliaToT1"
    /\ ~call.fresh
    /\ call.amount = t1Amount
    /\ t1Amount # sepoliaAmount


\* C15: a bridge call is entered only when the balance read at the start of the
\* cycle is at least 1.1 times the amount of its direction; otherwise the step is
\* skipped: no call, no transaction, stats unchanged, and the cycle goes on with
\* the sleep that follows the step.
C15_BalanceGate ==
    [][/\ (bpc = "idle" /\ bpc' # "idle") =>
             IF call'.dir = "sepoliaToT1"
             THEN pc = "forward" /\ 10 * sepoliaBalance >= 11 * call'.amount
             ELSE pc = "reverse" /\ 10 * t1Balance >= 11 * call'.amount
       /\ (pc = "forward" /\ pc' # pc /\ 10 * sepoliaBalance < 11 * sepoliaAmount) =>
             /\ pc' = "sleep1"
             /\ bpc' = "idle"
             /\ stats' = stats
             /\ txs' = txs
       /\ (pc = "reverse" /\ pc' # pc /\ 10 * t1Balance < 11 * t1Amount) =>
             /\ pc' = "sleep2"
             /\ bpc' = "idle"
             /\ stats' = stats
             /\ txs' = txs]_vars

C15_Witness ==
    /\ pc = "sleep2"
    /\ 10 * t1Balance < 11 * t1Amount
    /\ call.dir = "sepoliaToT1"
    /\ call.outcome = "success"

\* C16: a forward call that passed the pre-flight test was entered with a balance
\* of at least the native value its transaction attaches, amount + 0.0001 ETH.
C16_GateCoversValue ==
    (call.dir = "sepoliaToT1" /\ call.outcome # "none") =>
        sepoliaBalance >= call.amount + BUFFER_ETH


\* C17 as stated, after a bridge call that timed out: with no call in progress and
\* no transaction pending, successes and totalBridged of each direction equal the
\* number and the sum of amounts of its transactions confirmed with status 1.
C17_StatsEqualChain ==
    (bpc = "idle" /\ txs = <<>> /\ call.outcome = "timeout") =>
        \A d \in Directions :
            /\ stats[d].successes = chain[d].ok
            /\ stats[d].totalBridged * WeiUnitsPerNano = chain[d].okValue

\* C17 as amended: successes and totalBridged of each direction equal the number
\* and the sum of amounts of its transactions confirmed with status 1 while the
\* bot was waiting for them; those confirmed after the bot gave up (timeout or
\* rejected wait) were counted as failures and are missing from both.
C17_StatsWithinChain ==
    \A d \in Directions :
        /\ stats[d].successes + chain[d].late = chain[d].ok
        /\ stats[d].totalBridged * WeiUnitsPerNano + chain[d].lateValue
              = chain[d].okValue

C17_Witness ==
    /\ bpc = "idle"
    /\ txs = <<>>
    /\ call.outcome = "timeout"
    /\ chain[call.dir].late = 1
    /\ stats[call.dir].failures = 1
    /\ stats[call.dir].successes = 0

====
